---- MODULE Spec2Model ----
(***************************************************************************)
(* A model of the cookbook library: the title scorer, the heading          *)
(* detector, the recipe segmenter, the ingredient indexer and the artifact *)
(* writers of src/cookbook_project/cookbook_lib.py, with the older title   *)
(* scorer of src/cookbook_lib.py beside it.                                *)
(*                                                                         *)
(* Text is modelled as TLA+ strings, read one character at a time, so the  *)
(* string conversions of the code (strip, lower, the regular expressions,  *)
(* sanitize_title, normalize_title) are computed and not assumed.          *)
(***************************************************************************)
EXTENDS Integers, Sequences, FiniteSets, TLC

VARIABLES
    pageSpans,  \* SpecTitle: the spans of the page, in reading order
    page,       \* SpecTitle: the page handed to the title scorer
    scored,     \* SpecTitle: "none", or the edition of the scorer that ran
    title,      \* SpecTitle: what the scorer returned
    doc,        \* Spec: the document, a sequence of pages
    headings,   \* Spec: the list detect_headings returned
    index,      \* Spec: the dict build_ingredient_index returned
    pdfs,       \* Spec: the files split_recipes saved, by path
    fs,         \* the text files written so far, by path
    pc,         \* the step of the run that comes next
    run,        \* Spec: 1 in the first run of the pipeline, 2 in the second
    prev,       \* Spec: the files as the first run left them
    books,      \* SpecSite: all_docs, a sequence of [doc, headings, source]
    registry,   \* SpecSite: recipe_sources, from title key to source names
    failed      \* whether a step raised

titleVars == <<pageSpans, page, scored, title>>
docVars == <<doc, headings, index, pdfs, run, prev>>
siteVars == <<books, registry>>
vars == <<pageSpans, page, scored, title, doc, headings, index, pdfs, fs, pc,
          run, prev, books, registry, failed>>

-----------------------------------------------------------------------------
(* Characters and the str methods the code uses.                           *)

Ch(s, i) == SubSeq(s, i, i)

LOWERS == "abcdefghijklmnopqrstuvwxyz"
UPPERS == "ABCDEFGHIJKLMNOPQRSTUVWXYZ"
DIGITS == "0123456789"

LowerSet == {Ch(LOWERS, i) : i \in 1..Len(LOWERS)}
UpperSet == {Ch(UPPERS, i) : i \in 1..Len(UPPERS)}
DigitSet == {Ch(DIGITS, i) : i \in 1..Len(DIGITS)}
SpaceSet == {" ", "\n", "\t"}

\* [a-zA-Z]
IsAsciiLetter(c) == c \in LowerSet \cup UpperSet
\* str.isdigit
IsDigit(c) == c \in DigitSet
\* \s
IsSpace(c) == c \in SpaceSet
\* \w: letters, digits and the underscore
IsWordChar(c) == IsAsciiLetter(c) \/ IsDigit(c) \/ c = "_"

\* str.lower, one character
LowerChar(c) ==
    IF c \in UpperSet
    THEN Ch(LOWERS, CHOOSE i \in 1..Len(UPPERS) : Ch(UPPERS, i) = c)
    ELSE c

RECURSIVE Lower(_)
\* str.lower
Lower(s) ==
    IF Len(s) = 0 THEN ""
    ELSE IF Len(s) = 1 THEN LowerChar(s)
    ELSE Lower(SubSeq(s, 1, Len(s) \div 2))
         \o Lower(SubSeq(s, Len(s) \div 2 + 1, Len(s)))

RECURSIVE LStrip(_)
LStrip(s) ==
    IF Len(s) > 0 /\ IsSpace(Ch(s, 1)) THEN LStrip(SubSeq(s, 2, Len(s))) ELSE s

RECURSIVE RStrip(_)
RStrip(s) ==
    IF Len(s) > 0 /\ IsSpace(Ch(s, Len(s)))
    THEN RStrip(SubSeq(s, 1, Len(s) - 1))
    ELSE s

\* str.strip
Strip(s) == RStrip(LStrip(s))

\* str.endswith
EndsWith(s, suffix) ==
    /\ Len(s) >= Len(suffix)
    /\ SubSeq(s, Len(s) - Len(suffix) + 1, Len(s)) = suffix

\* any(char.isdigit() for char in text)
HasDigit(s) == \E i \in 1..Len(s) : IsDigit(Ch(s, i))

\* \b at the gap before position i of s (1 <= i <= Len(s) + 1): exactly one
\* of the two neighbours is a word character
Boundary(s, i) ==
    LET before == i > 1 /\ IsWordChar(Ch(s, i - 1))
        after  == i <= Len(s) /\ IsWordChar(Ch(s, i))
    IN  before # after

\* \bw\b matches s at position i
WordAt(s, w, i) ==
    /\ i + Len(w) - 1 <= Len(s)
    /\ SubSeq(s, i, i + Len(w) - 1) = w
    /\ Boundary(s, i)
    /\ Boundary(s, i + Len(w))

\* re.search(r"\b(w1|w2|...)\b", s)
SearchWord(s, words) == \E w \in words : \E i \in 1..Len(s) : WordAt(s, w, i)

\* re.match(r"^(l1|l2|...)$", s): $ also matches before one closing newline
MatchWhole(s, labels) == \E l \in labels : s = l \/ s = l \o "\n"

\* the characters of ASCII in code point order: 32 to 95, and 97 to 126
AsciiLow == " !\"#$%&'()*+,-./0123456789:;<=>?@ABCDEFGHIJKLMNOPQRSTUVWXYZ[\\]^_"
AsciiHigh == "abcdefghijklmnopqrstuvwxyz{|}~"

\* ord(c): tab and newline come before the space
Ord(c) ==
    IF c = "\t" THEN 9
    ELSE IF c = "\n" THEN 10
    ELSE IF \E i \in 1..Len(AsciiLow) : Ch(AsciiLow, i) = c
    THEN 31 + (CHOOSE i \in 1..Len(AsciiLow) : Ch(AsciiLow, i) = c)
    ELSE 96 + (CHOOSE i \in 1..Len(AsciiHigh) : Ch(AsciiHigh, i) = c)

RECURSIVE StrLess(_, _)
\* a < b on str: by code point, a proper prefix first
StrLess(a, b) ==
    IF Len(b) = 0 THEN FALSE
    ELSE IF Len(a) = 0 THEN TRUE
    ELSE IF Ch(a, 1) # Ch(b, 1) THEN Ord(Ch(a, 1)) < Ord(Ch(b, 1))
    ELSE StrLess(SubSeq(a, 2, Len(a)), SubSeq(b, 2, Len(b)))

RECURSIVE Sorted(_)
\* sorted(S) for a set or the keys of a dict of str
Sorted(S) ==
    IF S = {} THEN <<>>
    ELSE LET least == CHOOSE x \in S : \A y \in S \ {x} : StrLess(x, y)
         IN  <<least>> \o Sorted(S \ {least})

RECURSIVE Join(_, _)
\* sep.join(parts)
Join(sep, parts) ==
    IF parts = <<>> THEN ""
    ELSE IF Len(parts) = 1 THEN parts[1]
    ELSE parts[1] \o sep \o Join(sep, Tail(parts))

RECURSIVE IntStr(_)
\* str(n) for n >= 0
IntStr(n) ==
    IF n < 10 THEN Ch(DIGITS, n + 1)
    ELSE IntStr(n \div 10) \o Ch(DIGITS, (n % 10) + 1)

\* str.rfind(c), counted from 1; 0 when c does not occur
RFind(s, c) ==
    LET at == {i \in 1..Len(s) : Ch(s, i) = c}
    IN  IF at = {} THEN 0 ELSE CHOOSE i \in at : \A j \in at : j <= i

\* os.path.splitext(p)[0]: p up to its last dot, when that dot lies in the
\* last path component behind a character of it that is not a dot
SplitExtRoot(p) ==
    LET sepIndex == RFind(p, "/")
        dotIndex == RFind(p, ".")
    IN  IF /\ dotIndex > sepIndex
           /\ \E k \in (sepIndex + 1)..(dotIndex - 1) : Ch(p, k) # "."
        THEN SubSeq(p, 1, dotIndex - 1)
        ELSE p

RECURSIVE SpacesToUnderscore(_)
\* re.sub(r"\s+", "_", s): every run of whitespace becomes one underscore
SpacesToUnderscore(s) ==
    IF Len(s) = 0 THEN ""
    ELSE IF IsSpace(Ch(s, 1))
    THEN "_" \o SpacesToUnderscore(LStrip(s))
    ELSE Ch(s, 1) \o SpacesToUnderscore(SubSeq(s, 2, Len(s)))

\* [\w\s-]: what re.sub(r"[^\w\s-]", "", title) keeps
IsFileChar(c) == IsWordChar(c) \/ IsSpace(c) \/ c = "-"

RECURSIVE KeepFileChars(_)
\* re.sub(r"[^\w\s-]", "", s)
KeepFileChars(s) ==
    IF Len(s) = 0 THEN ""
    ELSE (IF IsFileChar(Ch(s, 1)) THEN Ch(s, 1) ELSE "")
         \o KeepFileChars(SubSeq(s, 2, Len(s)))

sanitize_title(t) ==
    SpacesToUnderscore(Strip(KeepFileChars(SplitExtRoot(t))))

\* a pattern that forgets the underscore: \W+ in place of [\W_]+
IsKeyCharOrUnderscore(c) == IsWordChar(c)

\* the complement of [\W_]: what re.sub(r"[\W_]+", "", title) keeps
IsKeyChar(c) == IsWordChar(c) /\ c # "_"

RECURSIVE KeepKeyChars(_)
\* re.sub(r"[\W_]+", "", s)
KeepKeyChars(s) ==
    IF Len(s) = 0 THEN ""
    ELSE (IF IsKeyChar(Ch(s, 1)) THEN Ch(s, 1) ELSE "")
         \o KeepKeyChars(SubSeq(s, 2, Len(s)))

normalize_title(t) == Lower(KeepKeyChars(t))

-----------------------------------------------------------------------------
(* get_most_likely_title                                                   *)

TitleMaxLen == 50

MetricWords == {"grams", "ml", "cup", "tablespoon", "teaspoon", "oz"}

\* the section labels of src/cookbook_project/cookbook_lib.py
SectionLabels == {"ingredients", "method", "directions", "the cookery"}

\* the section labels of src/cookbook_lib.py
SectionLabelsRoot ==
    {"ingredients", "method", "directions", "instructions", "the cookery"}

\* the condition under which a span's stripped text becomes a candidate
IsCandidate(text, labels) ==
    /\ Len(text) > 0
    /\ Len(text) < TitleMaxLen
    /\ ~HasDigit(text)
    /\ ~SearchWord(Lower(text), MetricWords)
    /\ ~MatchWhole(Lower(text), labels)
    /\ ~EndsWith(text, ".")

RECURSIVE FlattenLines(_)
\* for line in block["lines"]: for span in line["spans"]
FlattenLines(lines) ==
    IF lines = <<>> THEN <<>>
    ELSE Head(lines).spans \o FlattenLines(Tail(lines))

RECURSIVE FlattenBlocks(_)
\* for block in blocks: if "lines" in block: ...
FlattenBlocks(blocks) ==
    IF blocks = <<>> THEN <<>>
    ELSE (IF "lines" \in DOMAIN Head(blocks)
          THEN FlattenLines(Head(blocks).lines)
          ELSE <<>>) \o FlattenBlocks(Tail(blocks))

RECURSIVE Candidates(_, _)
\* title_candidates: (text, size) of every span that passes, in span order
Candidates(spans, labels) ==
    IF spans = <<>> THEN <<>>
    ELSE LET text == Strip(Head(spans).text)
             rest == Candidates(Tail(spans), labels)
         IN  IF IsCandidate(text, labels)
             THEN <<[text |-> text, size |-> Head(spans).size]>> \o rest
             ELSE rest

\* a sort that is not stable: c goes in front of the elements of its own size
InsertBySizeUnstable(sorted, c) ==
    LET n == Cardinality({i \in 1..Len(sorted) : sorted[i].size > c.size})
    IN  SubSeq(sorted, 1, n) \o <<c>> \o SubSeq(sorted, n + 1, Len(sorted))

\* one step of a stable sort by the key -size: c goes behind every element
\* whose size is at least its own
InsertBySize(sorted, c) ==
    LET n == Cardinality({i \in 1..Len(sorted) : sorted[i].size >= c.size})
    IN  SubSeq(sorted, 1, n) \o <<c>> \o SubSeq(sorted, n + 1, Len(sorted))

RECURSIVE SortBySizeDesc(_, _)
\* sorted(title_candidates, key=lambda x: -x[1]); acc is the sorted prefix
SortBySizeDesc(acc, cands) ==
    IF cands = <<>> THEN acc
    ELSE SortBySizeDesc(InsertBySize(acc, Head(cands)), Tail(cands))

None == [isNone |-> TRUE, text |-> ""]
Some(t) == [isNone |-> FALSE, text |-> t]

MostLikelyTitle(p, labels) ==
    LET title_candidates == Candidates(FlattenBlocks(p.blocks), labels)
    IN  IF title_candidates # <<>>
        THEN Some(SortBySizeDesc(<<>>, title_candidates)[1].text)
        ELSE None

\* src/cookbook_project/cookbook_lib.py
get_most_likely_title(p) == MostLikelyTitle(p, SectionLabels)

\* src/cookbook_lib.py
get_most_likely_title_root(p) == MostLikelyTitle(p, SectionLabelsRoot)

-----------------------------------------------------------------------------
(* detect_headings and the page range of a heading.  A document is the     *)
(* sequence of its pages; page index p of the code is doc[p + 1] here.  *)

\* a heading is recorded without asking whether its title is already there
IsNewTitleNoDedupe(t, hs) == ~t.isNone /\ Len(t.text) > 0

\* if title and title not in [h[0] for h in headings]
IsNewTitle(t, hs) ==
    /\ ~t.isNone
    /\ Len(t.text) > 0
    /\ \A k \in 1..Len(hs) : hs[k].title # t.text

\* a heading is recorded with the number of its page counted from 1
HeadingAtPageNumber(t, i) == [title |-> t.text, page |-> i + 1]

\* (title, i), i the index that enumerate(doc) gives the page
HeadingAt(t, i) == [title |-> t.text, page |-> i]

RECURSIVE DetectFrom(_, _, _)
\* the loop of detect_headings from page index i on, the headings so far in hs
DetectFrom(d, i, hs) ==
    IF i >= Len(d) THEN hs
    ELSE LET t == get_most_likely_title(d[i + 1])
         IN  IF IsNewTitle(t, hs)
             THEN DetectFrom(d, i + 1, Append(hs, HeadingAt(t, i)))
             ELSE DetectFrom(d, i + 1, hs)

detect_headings(d) == DetectFrom(d, 0, <<>>)

\* every range runs to the end of the document
EndPageToEnd(hs, i, d) == Len(d)

\* headings[i + 1][1] if i + 1 < len(headings) else len(doc), for the i-th
\* heading counted from 1
EndPage(hs, i, d) ==
    IF i < Len(hs) THEN hs[i + 1].page ELSE Len(d)

\* the page ranges the loops over the headings walk: [start, end) per heading
Ranges(hs, d) ==
    [i \in 1..Len(hs) |->
        [title |-> hs[i].title,
         start |-> hs[i].page,
         end   |-> EndPage(hs, i, d)]]

\* range(start, end) as a sequence
PageRange(start, end) ==
    IF end <= start THEN <<>> ELSE [k \in 1..(end - start) |-> start + k - 1]

RECURSIVE ConcatText(_, _)
\* text = ""; for p in pages: text += doc[p].get_text("text")
ConcatText(d, pages) ==
    IF pages = <<>> THEN ""
    ELSE d[Head(pages) + 1].text \o ConcatText(d, Tail(pages))

RangeText(d, r) == ConcatText(d, PageRange(r.start, r.end))

-----------------------------------------------------------------------------
(* build_ingredient_index                                                  *)

StopWords ==
    {"cup", "cups", "tsp", "tbsp", "grams", "ml", "oz", "and", "with", "for",
     "the"}

MinWordLen == 2

\* the end of the run of ASCII letters that starts at position i
RECURSIVE RunEnd(_, _)
RunEnd(s, i) ==
    IF i < Len(s) /\ IsAsciiLetter(Ch(s, i + 1)) THEN RunEnd(s, i + 1) ELSE i

RECURSIVE TokensFrom(_, _)
\* re.findall(r"\b[a-zA-Z][a-zA-Z]+\b", s) from position i on: a run of two
\* or more letters with a word boundary on both sides
TokensFrom(s, i) ==
    LET found == {k \in i..Len(s) :
                     /\ IsAsciiLetter(Ch(s, k)) /\ Boundary(s, k)
                     /\ RunEnd(s, k) > k /\ Boundary(s, RunEnd(s, k) + 1)}
    IN  IF found = {} THEN <<>>
        ELSE LET k == CHOOSE x \in found : \A y \in found : x <= y
             IN  <<SubSeq(s, k, RunEnd(s, k))>> \o TokensFrom(s, RunEnd(s, k) + 1)

Tokens(s) == TokensFrom(s, 1)

\* the word is indexed as it stands in the text
IndexKeyAsWritten(word) == word

\* word = word.lower()
IndexKey(word) == Lower(word)

\* a filter that forgets the stop words
IsIndexedAnyWord(word) == Len(word) > MinWordLen

\* word not in {...} and len(word) > 2
IsIndexed(word) == word \notin StopWords /\ Len(word) > MinWordLen

EmptyIndex == [w \in {} |-> {}]

\* index[word].add(title) on a defaultdict(set)
AddTitle(ix, word, t) ==
    IF word \in DOMAIN ix
    THEN [ix EXCEPT ![word] = @ \cup {t}]
    ELSE [w \in DOMAIN ix \cup {word} |->
             IF w = word THEN {t} ELSE ix[w]]

RECURSIVE AddWords(_, _, _)
\* for word in matches: ...
AddWords(ix, matches, t) ==
    IF matches = <<>> THEN ix
    ELSE LET word == IndexKey(Head(matches))
         IN  AddWords(IF IsIndexed(word) THEN AddTitle(ix, word, t) ELSE ix,
                      Tail(matches), t)

RECURSIVE IndexFrom(_, _, _)
\* the loop of build_ingredient_index over the ranges rs, the index so far in ix
IndexFrom(d, rs, ix) ==
    IF rs = <<>> THEN ix
    ELSE IndexFrom(d, Tail(rs),
                   AddWords(ix, Tokens(RangeText(d, Head(rs))), Head(rs).title))

build_ingredient_index(d, hs) ==
    IndexFrom(d, Ranges(hs, d), EmptyIndex)

-----------------------------------------------------------------------------
(* The files the writers produce.  fs maps a path to the text written to   *)
(* it; a later write to the same path replaces the earlier one.            *)

EmptyFs == [path \in {} |-> ""]

\* with open(path, "w") as f: f.write(content)
WriteFile(files, path, content) ==
    [q \in DOMAIN files \cup {path} |-> IF q = path THEN content ELSE files[q]]

\* os.path.join(dir, name) for a relative name
PathJoin(dir, name) == dir \o "/" \o name

RECURSIVE Concat(_)
\* the lines written one after the other
Concat(parts) == IF parts = <<>> THEN "" ELSE Head(parts) \o Concat(Tail(parts))

\* a split that passes the end page itself as to_page
SplitFileEndInclusive(r) == [from_page |-> r.start, to_page |-> r.end]

\* new_doc.insert_pdf(doc, from_page=start_page, to_page=end_page - 1) and
\* new_doc.save(out_path): the file is known by the pages asked for
SplitFile(r) == [from_page |-> r.start, to_page |-> r.end - 1]

RECURSIVE SplitFrom(_, _, _)
\* the loop of split_recipes over the ranges rs
SplitFrom(rs, out_dir, files) ==
    IF rs = <<>> THEN files
    ELSE SplitFrom(Tail(rs), out_dir,
            WriteFile(files,
                      PathJoin(out_dir, sanitize_title(Head(rs).title) \o ".pdf"),
                      SplitFile(Head(rs))))

split_recipes(d, hs, out_dir, files) ==
    SplitFrom(Ranges(hs, d), out_dir, files)

\* f"{i}. [{title}](cookbook_site/recipes/{safe_title}.html)\n"
TocLine(i, t) ==
    IntStr(i) \o ". [" \o t \o "](cookbook_site/recipes/"
        \o sanitize_title(t) \o ".html)\n"

generate_toc(hs, out_path, files) ==
    WriteFile(files, out_path,
        "## Table of Contents\n\n"
        \o Concat([i \in 1..Len(hs) |-> TocLine(i, hs[i].title)]))

\* f"- **{ingredient}** → {titles}\n" with titles = ", ".join(sorted(...))
IndexLine(ix, ingredient) ==
    "- **" \o ingredient \o "** → "
        \o Join(", ", Sorted(index[ingredient])) \o "\n"

save_index(ix, out_path, files) ==
    LET keys == Sorted(DOMAIN ix)
    IN  WriteFile(files, out_path,
            "## Ingredient Index\n\n"
            \o Concat([k \in 1..Len(keys) |-> IndexLine(ix, keys[k])]))

-----------------------------------------------------------------------------
(* export_to_html                                                          *)

\* the orders in which a set of str may be iterated: str hashes differ from
\* one interpreter process to the next, and the order of a set with them
IterationOrders(S) ==
    {o \in [1..Cardinality(S) -> S] : \A x \in S : \E k \in DOMAIN o : o[k] = x}

\* a set iterated as the hash order has it: the titles of S in the order in
\* which hashOrder lists them
Iterate(S, hashOrder) ==
    LET RECURSIVE Walk(_)
        Walk(k) == IF k > Len(hashOrder) THEN <<>>
                   ELSE (IF hashOrder[k] \in S THEN <<hashOrder[k]>> ELSE <<>>)
                        \o Walk(k + 1)
    IN  Walk(1)

\* f'<li><a href="{filename}">{title}</a></li>\n'
HtmlTocLine(t) ==
    "<li><a href=\"" \o sanitize_title(t) \o ".html\">" \o t \o "</a></li>\n"

\* "<pre>\n" + doc[p].get_text("text") + "\n</pre>\n" for every page
RECURSIVE PreBlocks(_, _)
PreBlocks(d, pages) ==
    IF pages = <<>> THEN ""
    ELSE "<pre>\n" \o d[Head(pages) + 1].text \o "\n</pre>\n"
         \o PreBlocks(d, Tail(pages))

RECURSIVE HtmlPagesFrom(_, _, _, _)
\* the loop of export_to_html that writes one page per heading
HtmlPagesFrom(d, rs, html_dir, files) ==
    IF rs = <<>> THEN files
    ELSE HtmlPagesFrom(d, Tail(rs), html_dir,
            WriteFile(files,
                PathJoin(html_dir, sanitize_title(Head(rs).title) \o ".html"),
                "<h1>" \o Head(rs).title \o "</h1>\n"
                \o PreBlocks(d, PageRange(Head(rs).start, Head(rs).end))))

\* f"<li><strong>{ingredient}</strong>: {refs}</li>\n" with
\* refs = ", ".join(index[ingredient]): the set is joined as it iterates
HtmlIndexLine(ix, ingredient, hashOrder) ==
    "<li><strong>" \o ingredient \o "</strong>: "
        \o Join(", ", Iterate(ix[ingredient], hashOrder)) \o "</li>\n"

export_to_html(d, hs, ix, html_dir, files, hashOrder) ==
    LET keys == Sorted(DOMAIN ix)
        toc == WriteFile(files, PathJoin(html_dir, "index.html"),
                   "<h1>Recipe Index</h1>\n<ul>\n"
                   \o Concat([i \in 1..Len(hs) |->
                                 HtmlTocLine(hs[i].title)])
                   \o "</ul>\n")
        pages == HtmlPagesFrom(d, Ranges(hs, d), html_dir, toc)
    IN  WriteFile(pages, PathJoin(html_dir, "ingredients.html"),
            "<h1>Ingredient Index</h1>\n<ul>\n"
            \o Concat([k \in 1..Len(keys) |->
                          HtmlIndexLine(ix, keys[k], hashOrder)])
            \o "</ul>\n")

-----------------------------------------------------------------------------
(* export_master_html_site                                                 *)

\* wrap_html(title, body, stylesheet)
wrap_html(t, body, stylesheet) ==
    "<!DOCTYPE html>\n<html lang=\"en\">\n<head>\n  <meta charset=\"UTF-8\">\n  <title>"
    \o t \o "</title>\n  <link rel=\"stylesheet\" href=\"" \o stylesheet
    \o "\">\n</head>\n<body>\n" \o body \o "\n</body>\n</html>"

\* the first position at which one of the words matches s as a whole word,
\* letter case ignored; 0 when none does
FirstWordMatch(s, words) ==
    LET low == Lower(s)
        at  == {i \in 1..Len(s) : \E w \in words : WordAt(low, w, i)}
    IN  IF at = {} THEN 0 ELSE CHOOSE i \in at : \A j \in at : i <= j

\* re.sub(r"(?i)\bw1\b|\bw2\b", repl, s, count=1)
ReplaceFirstWord(s, words, repl) ==
    LET i == FirstWordMatch(s, words)
    IN  IF i = 0 THEN s
        ELSE LET w == CHOOSE x \in words : WordAt(Lower(s), x, i)
             IN  SubSeq(s, 1, i - 1) \o repl \o SubSeq(s, i + Len(w), Len(s))

\* the two re.sub calls that promote the section words to sub-headings
ParseSections(recipe_text) ==
    ReplaceFirstWord(
        ReplaceFirstWord(recipe_text, {"ingredients"}, "\n\n<h2>Ingredients</h2>"),
        {"method", "directions"}, "\n\n<h2>Method</h2>")

RECURSIVE NewlinesToBr(_)
\* str.replace("\n", "<br>")
NewlinesToBr(s) ==
    IF Len(s) = 0 THEN ""
    ELSE IF Len(s) = 1 THEN (IF s = "\n" THEN "<br>" ELSE s)
    ELSE NewlinesToBr(SubSeq(s, 1, Len(s) \div 2))
         \o NewlinesToBr(SubSeq(s, Len(s) \div 2 + 1, Len(s)))

RECURSIVE JsonEscape(_)
\* the characters of a str as json.dump writes them
JsonEscape(s) ==
    IF Len(s) = 0 THEN ""
    ELSE IF Len(s) = 1
    THEN (CASE s = "\n" -> "\\n"
            [] s = "\t" -> "\\t"
            [] s = "\"" -> "\\\""
            [] s = "\\" -> "\\\\"
            [] OTHER -> s)
    ELSE JsonEscape(SubSeq(s, 1, Len(s) \div 2))
         \o JsonEscape(SubSeq(s, Len(s) \div 2 + 1, Len(s)))

JsonStr(s) == "\"" \o JsonEscape(s) \o "\""

\* one search record as json.dump(..., indent=2) writes it inside the list
JsonRecord(r) ==
    "  {\n    \"title\": " \o JsonStr(r.title)
    \o ",\n    \"source\": " \o JsonStr(r.source)
    \o ",\n    \"url\": " \o JsonStr(r.url)
    \o ",\n    \"body\": " \o JsonStr(r.body) \o "\n  }"

\* json.dump(search_records, f, indent=2)
JsonDump(records) ==
    IF records = <<>> THEN "[]"
    ELSE "[\n" \o Join(",\n", [k \in 1..Len(records) |-> JsonRecord(records[k])])
         \o "\n]"

\* sources = recipe_sources.get(norm, []);
\* other_sources = [s for s in sources if s != source]
OtherSources(recipe_sources, t, source) ==
    IF normalize_title(t) \in DOMAIN recipe_sources
    THEN recipe_sources[normalize_title(t)] \ {source}
    ELSE {}

AlsoFoundIn == "<p><strong>Also found in:</strong> "

\* the body of one recipe page
RecipeBody(t, source, recipe_sources, parsed) ==
    "<h1>" \o t \o "</h1>\n"
    \o "<p><em>From: " \o source \o "</em></p>\n"
    \o (LET other_sources == OtherSources(recipe_sources, t, source)
        IN  IF other_sources # {}
            THEN AlsoFoundIn \o Join(", ", Sorted(other_sources)) \o "</p>\n"
            ELSE "")
    \o "<p><a href=\"../index.html\">← Back to Index</a> | <a href=\"../ingredients.html\">Ingredient Index</a></p>\n"
    \o NewlinesToBr(Strip(parsed)) \o "\n"

\* the page written for one heading of one source
RecipePage(t, source, recipe_sources, parsed) ==
    wrap_html(t, RecipeBody(t, source, recipe_sources, parsed), "../style.css")

\* the loop over the pages of a range: parsed is assigned in every round, from
\* the text read so far, and keeps its earlier value when there is no round
ParsedAfter(d, pages, before) ==
    IF pages = <<>> THEN before
    ELSE Some(ParseSections(ConcatText(d, pages)))

RECURSIVE MasterPagesFrom(_, _, _, _, _)
\* the loop over the headings of one source; acc holds the files, the search
\* records, the value of parsed and whether a name was read before it was bound
MasterPagesFrom(d, rs, source, recipe_sources, acc) ==
    IF rs = <<>> \/ acc.failed THEN acc
    ELSE LET r == Head(rs)
             recipe_text == RangeText(d, r)
             parsed == ParsedAfter(d, PageRange(r.start, r.end), acc.parsed)
             html_filename == sanitize_title(r.title) \o ".html"
         IN  IF parsed.isNone
             THEN [acc EXCEPT !.failed = TRUE]
             ELSE MasterPagesFrom(d, Tail(rs), source, recipe_sources,
                    [files |-> WriteFile(acc.files,
                                  PathJoin(PathJoin(acc.out_dir, "recipes"), html_filename),
                                  RecipePage(r.title, source, recipe_sources, parsed.text)),
                     records |-> Append(acc.records,
                                  [title |-> r.title, source |-> source,
                                   url |-> "recipes/" \o html_filename,
                                   body |-> recipe_text]),
                     parsed |-> parsed,
                     failed |-> FALSE,
                     out_dir |-> acc.out_dir])

RECURSIVE MasterDocsFrom(_, _, _)
\* for doc, headings, source in all_docs
MasterDocsFrom(all_docs, recipe_sources, acc) ==
    IF all_docs = <<>> \/ acc.failed THEN acc
    ELSE MasterDocsFrom(Tail(all_docs), recipe_sources,
            MasterPagesFrom(Head(all_docs).doc,
                            Ranges(Head(all_docs).headings, Head(all_docs).doc),
                            Head(all_docs).source, recipe_sources, acc))

\* the static head of the master index page
MasterTocHead ==
    "\n<h1>Master Recipe Index</h1>\n<input type=\"text\" id=\"searchInput\" placeholder=\"Search recipes...\" oninput=\"runSearch()\" style=\"width:100%; padding:0.5em; margin-bottom:1em;\"\n<ul id=\"searchResults\">\n"

\* the static search script that closes the master index page (its body holds
\* no value of the build and is left out)
MasterSearchScript ==
    "\n<script src=\"recipes/search_data.js\"></script>\n<script>\nfunction runSearch() {}\n</script>\n"

\* f'<li><a href="recipes/{filename}">{title}</a> <small>({source})</small></li>\n'
MasterTocLine(h) ==
    "<li><a href=\"recipes/" \o sanitize_title(h.title) \o ".html\">" \o h.title
    \o "</a> <small>(" \o h.source \o ")</small></li>\n"

\* f"<li><strong>{ingredient}</strong>: {refs}</li>\n", refs sorted
MasterIndexLine(all_indexes, ingredient) ==
    "<li><strong>" \o ingredient \o "</strong>: "
    \o Join(", ", Sorted(all_indexes[ingredient])) \o "</li>\n"

\* export_master_html_site: the files after the build, and whether the build
\* raised before it wrote them all
export_master_html_site(all_docs, all_headings, all_indexes, out_dir, recipe_sources, files) ==
    LET built == MasterDocsFrom(all_docs, recipe_sources,
                    [files |-> files, records |-> <<>>, parsed |-> None,
                     failed |-> FALSE, out_dir |-> out_dir])
        keys == Sorted(DOMAIN all_indexes)
        withSearch == WriteFile(built.files,
                          PathJoin(PathJoin(out_dir, "recipes"), "search_data.js"),
                          "window.searchData = " \o JsonDump(built.records) \o ";")
        withToc == WriteFile(withSearch, PathJoin(out_dir, "index.html"),
                       wrap_html("Master TOC",
                           MasterTocHead
                           \o Concat([k \in 1..Len(all_headings) |->
                                         MasterTocLine(all_headings[k])])
                           \o "</ul>\n" \o MasterSearchScript,
                           "style.css"))
        withIndex == WriteFile(withToc, PathJoin(out_dir, "ingredients.html"),
                         wrap_html("Ingredient Index",
                             "<h1>Master Ingredient Index</h1><ul>\n"
                             \o Concat([k \in 1..Len(keys) |->
                                           MasterIndexLine(all_indexes, keys[k])])
                             \o "</ul>",
                             "style.css"))
    IN  IF built.failed
        THEN [files |-> built.files, failed |-> TRUE]
        ELSE [files |-> withIndex, failed |-> FALSE]

-----------------------------------------------------------------------------
(* The title scorer on one page: the pages it is tried on.                 *)

MaxSpans == 2

LongText == "A very long line of prose that runs past fifty characters"

SpanTexts ==
    { "Soup", "Bread", "Cup Cakes", "Tip 2", "Stir well.", "Instructions",
      " Method ", "THE COOKERY", "  ", LongText }

SpanSizes == {12, 18}

Spans == [text : SpanTexts, size : SpanSizes]

SpanSeqs == UNION {[1..n -> Spans] : n \in 0..MaxSpans}

\* how the extractor groups the spans of a page into blocks and lines
Layouts == {"line", "lines", "blocks"}

ImageBlock == [image |-> "png"]

PageOf(ss, layout, text) ==
    [ text |-> text,
      blocks |->
        CASE layout = "line" -> <<[lines |-> <<[spans |-> ss]>>]>>
          [] layout = "lines" ->
               <<[lines |-> [i \in 1..Len(ss) |-> [spans |-> <<ss[i]>>]]]>>
          [] layout = "blocks" ->
               <<ImageBlock>> \o
               [i \in 1..Len(ss) |-> [lines |-> <<[spans |-> <<ss[i]>>]>>]] ]

\* the variables of the other specifications, at rest
IdleTitle == pageSpans = <<>> /\ page = PageOf(<<>>, "line", "")
                 /\ scored = "none" /\ title = None
IdleDoc == doc = <<>> /\ headings = <<>> /\ index = EmptyIndex
               /\ pdfs = EmptyFs /\ run = 1 /\ prev = <<EmptyFs, EmptyFs>>
IdleSite == books = <<>> /\ registry = EmptyIndex

InitTitle ==
    /\ pageSpans \in SpanSeqs
    /\ \E layout \in Layouts : page = PageOf(pageSpans, layout, "")
    /\ scored = "none"
    /\ title = None
    /\ IdleDoc /\ IdleSite
    /\ fs = EmptyFs /\ pc = "score" /\ failed = FALSE

\* get_most_likely_title(page) of src/cookbook_project/cookbook_lib.py
ScoreProject ==
    /\ pc = "score"
    /\ title' = get_most_likely_title(page)
    /\ scored' = "project"
    /\ pc' = "done"
    /\ UNCHANGED <<pageSpans, page, docVars, siteVars, fs, failed>>

\* get_most_likely_title(page) of src/cookbook_lib.py
ScoreRoot ==
    /\ pc = "score"
    /\ title' = get_most_likely_title_root(page)
    /\ scored' = "root"
    /\ pc' = "done"
    /\ UNCHANGED <<pageSpans, page, docVars, siteVars, fs, failed>>

NextTitle == ScoreProject \/ ScoreRoot

SpecTitle == InitTitle /\ [][NextTitle]_vars

-----------------------------------------------------------------------------
(* What the caller of the library hands to export_master_html_site.        *)

\* all_headings: (title, source) of every heading of every document
RECURSIVE AllHeadings(_)
AllHeadings(all_docs) ==
    IF all_docs = <<>> THEN <<>>
    ELSE [i \in 1..Len(Head(all_docs).headings) |->
             [title |-> Head(all_docs).headings[i].title,
              source |-> Head(all_docs).source]]
         \o AllHeadings(Tail(all_docs))

\* all_indexes: the union of the indexes of the documents, word by word
RECURSIVE MergedIndex(_)
MergedIndex(all_docs) ==
    IF all_docs = <<>> THEN EmptyIndex
    ELSE LET one  == build_ingredient_index(Head(all_docs).doc, Head(all_docs).headings)
             rest == MergedIndex(Tail(all_docs))
         IN  [w \in DOMAIN one \cup DOMAIN rest |->
                 (IF w \in DOMAIN one THEN one[w] ELSE {})
                 \cup (IF w \in DOMAIN rest THEN rest[w] ELSE {})]

\* recipe_sources: from the key of a title to the sources that have a heading
\* with that key
SourceRegistry(all_docs) ==
    LET all == AllHeadings(all_docs)
        keys == {normalize_title(all[i].title) : i \in 1..Len(all)}
    IN  [k \in keys |->
            {all[i].source : i \in {j \in 1..Len(all) :
                                       normalize_title(all[j].title) = k}}]

-----------------------------------------------------------------------------
(* The pipeline on one document, run twice.                                *)

MaxPages == 3

SoupPage ==
    PageOf(<<[text |-> "Soup", size |-> 18],
             [text |-> "Butter and salt", size |-> 10]>>,
           "lines", "Soup\nIngredients\nButter and salt\n")

BreadPage ==
    PageOf(<<[text |-> "Bread", size |-> 18],
             [text |-> "butter, flour2 oz", size |-> 10]>>,
           "lines", "Bread\nbutter, flour2 oz\n")

\* a page on which no span qualifies as a title
PlainPage ==
    PageOf(<<[text |-> "Add 2 cups SALT.", size |-> 10]>>,
           "line", "Method\nAdd 2 cups SALT.\n")

\* a page whose text does not end with a newline
CakePage ==
    PageOf(<<[text |-> "Cake", size |-> 18], [text |-> "Sugar", size |-> 10]>>,
           "blocks", "Cake\nSugar")

DocPages == {SoupPage, BreadPage, PlainPage}

\* the six pages of the end-to-end scenario: headings on pages 0, 2 and 4
ScenarioDoc == <<SoupPage, PlainPage, BreadPage, PlainPage, CakePage, PlainPage>>

Docs == UNION {[1..n -> DocPages] : n \in 0..MaxPages} \cup {ScenarioDoc}

\* the paths and the source name the caller chooses
SplitDir == "SplitRecipes"
TocPath == "toc.md"
IndexPath == "ingredient_index.md"
HtmlDir == "html"
SiteDir == "cookbook_site"
BookName == "Book"

Init ==
    /\ doc \in Docs
    /\ headings = <<>>
    /\ index = EmptyIndex
    /\ pdfs = EmptyFs
    /\ fs = EmptyFs
    /\ pc = "detect"
    /\ run = 1
    /\ prev = <<EmptyFs, EmptyFs>>
    /\ failed = FALSE
    /\ IdleTitle /\ IdleSite

\* headings = detect_headings(doc)
DetectHeadings ==
    /\ pc = "detect"
    /\ headings' = detect_headings(doc)
    /\ pc' = "index"
    /\ UNCHANGED <<titleVars, siteVars, doc, index, pdfs, fs, run, prev, failed>>

\* index = build_ingredient_index(doc, headings)
BuildIngredientIndex ==
    /\ pc = "index"
    /\ index' = build_ingredient_index(doc, headings)
    /\ pc' = "split"
    /\ UNCHANGED <<titleVars, siteVars, doc, headings, pdfs, fs, run, prev, failed>>

\* split_recipes(doc, headings, out_dir)
SplitRecipes ==
    /\ pc = "split"
    /\ pdfs' = split_recipes(doc, headings, SplitDir, pdfs)
    /\ pc' = "toc"
    /\ UNCHANGED <<titleVars, siteVars, doc, headings, index, fs, run, prev, failed>>

\* generate_toc(headings, out_path)
GenerateToc ==
    /\ pc = "toc"
    /\ fs' = generate_toc(headings, TocPath, fs)
    /\ pc' = "save"
    /\ UNCHANGED <<titleVars, siteVars, doc, headings, index, pdfs, run, prev, failed>>

\* save_index(index, out_path)
SaveIndex ==
    /\ pc = "save"
    /\ fs' = save_index(index, IndexPath, fs)
    /\ pc' = "html"
    /\ UNCHANGED <<titleVars, siteVars, doc, headings, index, pdfs, run, prev, failed>>

\* export_to_html(doc, headings, index, html_dir), in a process whose str
\* hashes order the titles as hashOrder does
ExportToHtml ==
    /\ pc = "html"
    /\ \E hashOrder \in IterationOrders({headings[i].title : i \in 1..Len(headings)}) :
          fs' = export_to_html(doc, headings, index, HtmlDir, fs, hashOrder)
    /\ pc' = "site"
    /\ UNCHANGED <<titleVars, siteVars, doc, headings, index, pdfs, run, prev, failed>>

\* export_master_html_site with this document as the only source
ExportMasterHtmlSite ==
    /\ pc = "site"
    /\ LET all_docs == <<[doc |-> doc, headings |-> headings, source |-> BookName]>>
           built == export_master_html_site(all_docs, AllHeadings(all_docs), index,
                        SiteDir, SourceRegistry(all_docs), fs)
       IN  fs' = built.files /\ failed' = built.failed
    /\ pc' = "done"
    /\ UNCHANGED <<titleVars, siteVars, doc, headings, index, pdfs, run, prev>>

\* the pipeline is started again on the same document; the files of the first
\* run stay where they are
RunAgain ==
    /\ pc = "done"
    /\ run = 1
    /\ prev' = <<fs, pdfs>>
    /\ run' = 2
    /\ headings' = <<>>
    /\ index' = EmptyIndex
    /\ pc' = "detect"
    /\ UNCHANGED <<titleVars, siteVars, doc, pdfs, fs, failed>>

Next ==
    \/ DetectHeadings
    \/ BuildIngredientIndex
    \/ SplitRecipes
    \/ GenerateToc
    \/ SaveIndex
    \/ ExportToHtml
    \/ ExportMasterHtmlSite
    \/ RunAgain

Spec == Init /\ [][Next]_vars

-----------------------------------------------------------------------------
(* The master site built from two source books.                            *)

\* the pages of the two books together
MaxSitePages == 2

SiteTitles == {"Apple Pie", "apple-pie", "APPLE PIE!", "Apple Pies", "Apple_Pie"}

\* a page that opens the recipe named t
RecipePageOf(t) ==
    PageOf(<<[text |-> t, size |-> 18]>>, "line",
           t \o "\nIngredients: apples\n")

SiteDocs ==
    UNION {[1..n -> {RecipePageOf(t) : t \in SiteTitles}] : n \in 0..MaxSitePages}

SourceNames == {"BookA", "BookB"}

\* the registries the caller may hand over for these books: the one that
\* lists the sources of every key, the empty one, and every one that puts the
\* same sources under all the keys of the titles
Registries(all_docs) ==
    LET all == AllHeadings(all_docs)
        keys == {normalize_title(all[i].title) : i \in 1..Len(all)}
    IN  {SourceRegistry(all_docs), EmptyIndex}
        \cup {[k \in keys |-> V] : V \in SUBSET SourceNames}

InitSite ==
    /\ \E a, b \in SiteDocs :
          /\ Len(a) + Len(b) <= MaxSitePages
          /\ books = <<[doc |-> a, headings |-> <<>>, source |-> "BookA"],
                    [doc |-> b, headings |-> <<>>, source |-> "BookB"]>>
    /\ registry = EmptyIndex
    /\ fs = EmptyFs
    /\ pc = "detect"
    /\ failed = FALSE
    /\ IdleTitle /\ IdleDoc

\* detect_headings on every book
SiteDetectHeadings ==
    /\ pc = "detect"
    /\ books' = [k \in 1..Len(books) |->
                    [books[k] EXCEPT !.headings = detect_headings(books[k].doc)]]
    /\ pc' = "site"
    /\ UNCHANGED <<titleVars, docVars, registry, fs, failed>>

\* export_master_html_site(all_docs, all_headings, all_indexes, out_dir,
\* recipe_sources)
SiteExportMaster ==
    /\ pc = "site"
    /\ \E recipe_sources \in Registries(books) :
          LET built == export_master_html_site(books, AllHeadings(books),
                           MergedIndex(books), SiteDir, recipe_sources, fs)
          IN  /\ registry' = recipe_sources
              /\ fs' = built.files
              /\ failed' = built.failed
    /\ pc' = "done"
    /\ UNCHANGED <<titleVars, docVars, books>>

NextSite == SiteDetectHeadings \/ SiteExportMaster

SpecSite == InitSite /\ [][NextSite]_vars

-----------------------------------------------------------------------------
(* Claims about the title scorer.                                          *)

\* the reserved section labels as the specification lists them
ReservedLabels ==
    {"ingredients", "method", "directions", "instructions", "the cookery"}

\* C3: get_most_likely_title never returns a text that contains a digit,
\* that ends with a period, or whose trimmed lowercase form is one of the
\* reserved section labels.
C3_NeverSelectsExcluded ==
    (scored # "none" /\ ~title.isNone) =>
        /\ ~HasDigit(title.text)
        /\ ~EndsWith(title.text, ".")
        /\ Lower(Strip(title.text)) \notin ReservedLabels

\* the labels the edition that ran filters by
LabelsOf(edition) ==
    IF edition = "root" THEN SectionLabelsRoot ELSE SectionLabels

\* the positions of the spans that qualify
Qualifying ==
    {i \in 1..Len(pageSpans) :
        IsCandidate(Strip(pageSpans[i].text), LabelsOf(scored))}

-----------------------------------------------------------------------------
(* Claims about the pipeline on one document.                              *)

\* the steps that come after detect_headings, build_ingredient_index and
\* generate_toc have run in the current run
AfterDetect == {"index", "split", "toc", "save", "html", "site", "done"}
AfterIndex == {"split", "toc", "save", "html", "site", "done"}
AfterToc == {"save", "html", "site", "done"}

\* the range of the i-th heading as the specification states it
ClaimStart(i) == headings[i].page
ClaimEnd(i) == IF i < Len(headings) THEN headings[i + 1].page ELSE Len(doc)

\* the number of ranges, as the loops of the code walk them, that hold page p
RangesHolding(p) ==
    Cardinality({i \in 1..Len(headings) :
                    /\ Ranges(headings, doc)[i].start <= p
                    /\ p < Ranges(headings, doc)[i].end})

\* C1 as stated: the ranges computed from detect_headings(D) hold every page
\* index of [0, pageCount(D)) exactly once.
C1_Partition ==
    pc \in AfterDetect => \A p \in 0..(Len(doc) - 1) : RangesHolding(p) = 1

\* C1 as amended: every page from the page of the first heading on is in
\* exactly one range, and a page before the first heading (every page, when
\* there is no heading) is in none.
C1_PartitionFromFirstHeading ==
    pc \in AfterDetect =>
        \A p \in 0..(Len(doc) - 1) :
            RangesHolding(p) =
                IF Len(headings) > 0 /\ p >= headings[1].page THEN 1 ELSE 0

\* C1 witness: a page without a title comes before the first heading, and a
\* range holds more than one page.
C1_Witness ==
    /\ pc \in AfterDetect
    /\ Len(headings) > 0
    /\ headings[1].page > 0
    /\ \E i \in 1..Len(headings) : ClaimEnd(i) - ClaimStart(i) >= 2

\* what the scorer returns on page index p
Returned(p) == get_most_likely_title(doc[p + 1])

\* C4: no two headings have the same title, the page of each heading is the
\* first page on which the scorer returned its title, and every title the
\* scorer returned has its heading: a title returned again adds none.
C4_FirstOccurrence ==
    pc \in AfterDetect =>
        /\ \A i, j \in 1..Len(headings) :
              headings[i].title = headings[j].title => i = j
        /\ \A i \in 1..Len(headings) :
              /\ headings[i].page \in 0..(Len(doc) - 1)
              /\ Returned(headings[i].page) = Some(headings[i].title)
              /\ \A p \in 0..(headings[i].page - 1) :
                    Returned(p) # Some(headings[i].title)
        /\ \A p \in 0..(Len(doc) - 1) :
              ~Returned(p).isNone =>
                  \E i \in 1..Len(headings) : headings[i].title = Returned(p).text

\* C4 witness: the scorer returned the title of a heading again on a later
\* page, behind another heading.
C4_Witness ==
    /\ pc \in AfterDetect
    /\ Len(headings) = 2
    /\ \E p \in 0..(Len(doc) - 1) :
          /\ p > headings[2].page
          /\ Returned(p) = Some(headings[1].title)

\* C5: the range of heading i runs from its page to the page of the next
\* heading, and to the document length for the last one; split_recipes saves
\* exactly these pages; with no heading nothing is split, the index is empty
\* and the table of contents has no entry; headings on pages 0, 2 and 4 of
\* six pages give [0,2), [2,4), [4,6).
C5_Ranges ==
    pc \in AfterToc =>
        /\ ~failed
        /\ Len(Ranges(headings, doc)) = Len(headings)
        /\ \A i \in 1..Len(headings) :
              /\ Ranges(headings, doc)[i] =
                    [title |-> headings[i].title,
                     start |-> ClaimStart(i), end |-> ClaimEnd(i)]
              /\ PathJoin(SplitDir, sanitize_title(headings[i].title) \o ".pdf")
                    \in DOMAIN pdfs
              /\ pdfs[PathJoin(SplitDir, sanitize_title(headings[i].title) \o ".pdf")]
                    = [from_page |-> ClaimStart(i), to_page |-> ClaimEnd(i) - 1]
        /\ Cardinality(DOMAIN pdfs) = Len(headings)
        /\ headings = <<>> =>
              /\ index = EmptyIndex
              /\ fs[TocPath] = "## Table of Contents\n\n"
        /\ doc = ScenarioDoc =>
              Ranges(headings, doc) =
                  <<[title |-> "Soup", start |-> 0, end |-> 2],
                    [title |-> "Bread", start |-> 2, end |-> 4],
                    [title |-> "Cake", start |-> 4, end |-> 6]>>

\* C5 witness: the six-page scenario, split into its three recipes.
C5_Witness ==
    /\ pc = "done"
    /\ doc = ScenarioDoc
    /\ Len(headings) = 3
    /\ pdfs[PathJoin(SplitDir, "Bread.pdf")] = [from_page |-> 2, to_page |-> 3]

\* the text of the pages of the i-th heading's own range, one after the other
ClaimText(i) == ConcatText(doc, PageRange(ClaimStart(i), ClaimEnd(i)))

\* the stop words as the specification lists them
ClaimStopWords ==
    {"cup", "cups", "tsp", "tbsp", "grams", "ml", "oz", "and", "with", "for",
     "the"}

\* C6: no key of the index is a stop word or has two letters or fewer, every
\* key is lowercase, and the tokens of a recipe that differ only in letter
\* case all list the recipe under their one lowercase key.
C6_IndexKeys ==
    pc \in AfterIndex =>
        /\ \A w \in DOMAIN index :
              /\ w \notin ClaimStopWords
              /\ Len(w) > 2
              /\ \A k \in 1..Len(w) : Ch(w, k) \notin UpperSet
        /\ \A i \in 1..Len(headings) :
              LET tokens == Tokens(ClaimText(i))
              IN  \A k \in 1..Len(tokens) :
                      LET low == Lower(tokens[k])
                      IN  (low \notin ClaimStopWords /\ Len(low) > 2) =>
                              /\ low \in DOMAIN index
                              /\ headings[i].title \in index[low]

\* C6 witness: "Butter" in one recipe and "butter" in another are one key.
C6_Witness ==
    /\ pc \in AfterIndex
    /\ "butter" \in DOMAIN index
    /\ index["butter"] = {"Soup", "Bread"}
    /\ "Butter" \notin DOMAIN index

\* the runs of ASCII letters of s that no letter precedes or follows, as
\* pairs of their first and last position
LetterRuns(s) ==
    LET starts == {a \in 1..Len(s) :
                      /\ IsAsciiLetter(Ch(s, a))
                      /\ a = 1 \/ ~IsAsciiLetter(Ch(s, a - 1))}
        ends == {b \in 1..Len(s) :
                    /\ IsAsciiLetter(Ch(s, b))
                    /\ b = Len(s) \/ ~IsAsciiLetter(Ch(s, b + 1))}
    IN  {<<a, CHOOSE b \in ends : b >= a /\ \A c \in ends : c >= a => b <= c>> :
            a \in starts}

\* the runs of letters that are whole words: no letter, digit or underscore
\* precedes or follows them
WholeWordRuns(s) ==
    {ab \in LetterRuns(s) :
        /\ ab[1] = 1 \/ ~IsWordChar(Ch(s, ab[1] - 1))
        /\ ab[2] = Len(s) \/ ~IsWordChar(Ch(s, ab[2] + 1))}

\* the lowercase forms of the runs that survive: longer than two letters and
\* no stop word
Surviving(s, runs) ==
    {w \in {Lower(SubSeq(s, ab[1], ab[2])) : ab \in runs} :
        Len(w) > 2 /\ w \notin ClaimStopWords}

\* every word the claim may speak of: the keys of the index and the runs of
\* letters of every page range
ClaimWords ==
    DOMAIN index
    \cup UNION {Surviving(ClaimText(i), LetterRuns(ClaimText(i))) :
                   i \in 1..Len(headings)}

\* C7 as stated: T is in index[w] exactly when w is the lowercase form of a
\* run of letters, longer than two and no stop word, of the text of T's own
\* range.
C7_LetterRunTokens ==
    pc \in AfterIndex =>
        LET words == ClaimWords
        IN  \A i \in 1..Len(headings) :
                LET tokens == Surviving(ClaimText(i), LetterRuns(ClaimText(i)))
                IN  \A w \in words :
                        (w \in DOMAIN index /\ headings[i].title \in index[w])
                        <=> w \in tokens

\* C7 as amended: T is in index[w] exactly when w is the lowercase form of a
\* run of letters that is a whole word (neither a letter nor a digit nor an
\* underscore stands next to it), longer than two and no stop word, of the
\* text of T's own range.
C7_WholeWordTokens ==
    pc \in AfterIndex =>
        LET words == ClaimWords
        IN  \A i \in 1..Len(headings) :
                LET tokens == Surviving(ClaimText(i), WholeWordRuns(ClaimText(i)))
                IN  \A w \in words :
                        (w \in DOMAIN index /\ headings[i].title \in index[w])
                        <=> w \in tokens

\* C7 witness: a word that stands twice in one recipe and in no other lists
\* that recipe alone, and letters next to a digit are no word.
C7_Witness ==
    /\ pc \in AfterIndex
    /\ Len(headings) = 2
    /\ "salt" \in DOMAIN index
    /\ index["salt"] = {"Soup"}
    /\ Cardinality({ab \in LetterRuns(ClaimText(1)) :
                       Lower(SubSeq(ClaimText(1), ab[1], ab[2])) = "salt"}) = 2
    /\ "flour" \in Surviving(ClaimText(2), LetterRuns(ClaimText(2)))
    /\ "flour" \notin DOMAIN index

\* C9: the second run of the pipeline on the same document leaves every
\* artifact as the first run left it.
C9_SameArtifacts ==
    (run = 2 /\ pc = "done") => <<fs, pdfs>> = prev


-----------------------------------------------------------------------------
(* Claims about the master site built from two books.                      *)

\* sub stands somewhere in s
Contains(s, sub) ==
    \E i \in 1..(Len(s) - Len(sub) + 1) : SubSeq(s, i, i + Len(sub) - 1) = sub

\* the files of the recipes directory of the site that are pages
RecipeFiles ==
    {f \in DOMAIN fs :
        /\ Len(f) > Len(PathJoin(SiteDir, "recipes/"))
        /\ SubSeq(f, 1, Len(PathJoin(SiteDir, "recipes/"))) = PathJoin(SiteDir, "recipes/")
        /\ EndsWith(f, ".html")}

\* every (source, heading) pair of the books
SourceHeadings ==
    {<<k, i>> \in (1..Len(books)) \X (0..MaxSitePages) :
        i \in 1..Len(books[k].headings)}

\* the page that the source of pair kh renders for its heading: the text of
\* the heading's own range of its own document, under its own source name
OwnRendering(kh) ==
    LET b == books[kh[1]]
        i == kh[2]
        end == IF i < Len(b.headings) THEN b.headings[i + 1].page ELSE Len(b.doc)
    IN  RecipePage(b.headings[i].title, b.source, registry,
                   ParseSections(ConcatText(b.doc, PageRange(b.headings[i].page, end))))

\* C2: when the build has finished, the recipes directory holds, for every
\* (source, heading) pair, a page whose content is that source's own
\* rendering of that heading.
C2_EachKeepsItsPage ==
    (pc = "done" /\ ~failed) =>
        \A kh \in SourceHeadings :
            \E f \in RecipeFiles : fs[f] = OwnRendering(kh)

RECURSIVE ClaimKey(_)
\* the alphanumeric characters of the lowercased title, in their order
ClaimKey(t) ==
    IF Len(t) = 0 THEN ""
    ELSE LET c == LowerChar(Ch(t, 1))
         IN  (IF c \in LowerSet \cup DigitSet THEN c ELSE "")
             \o ClaimKey(SubSeq(t, 2, Len(t)))

\* the titles of the headings of the books
HeadingTitles ==
    {books[kh[1]].headings[kh[2]].title : kh \in SourceHeadings}

\* the page f shows the heading and the source of pair kh
Shows(f, kh) ==
    /\ Contains(fs[f], "<h1>" \o books[kh[1]].headings[kh[2]].title \o "</h1>")
    /\ Contains(fs[f], "<em>From: " \o books[kh[1]].source \o "</em>")

\* C8: two titles have the same key exactly when their lowercased
\* alphanumeric characters are the same sequence ("Apple Pie", "apple-pie"
\* and "APPLE PIE!" share a key, "Apple Pie" and "Apple Pies" do not), and a
\* recipe page shows an "also found in" line exactly when the registry entry
\* of its key holds a source other than the page's own.
C8_KeyAndAlsoFound ==
    /\ normalize_title("Apple Pie") = normalize_title("apple-pie")
    /\ normalize_title("Apple Pie") = normalize_title("APPLE PIE!")
    /\ normalize_title("Apple Pie") # normalize_title("Apple Pies")
    /\ \A a, b \in HeadingTitles :
          normalize_title(a) = normalize_title(b) <=> ClaimKey(a) = ClaimKey(b)
    /\ pc = "done" =>
          \A f \in RecipeFiles :
              /\ \E kh \in SourceHeadings : Shows(f, kh)
              /\ \A kh \in SourceHeadings :
                    Shows(f, kh) =>
                        (Contains(fs[f], "Also found in:")
                         <=> /\ ClaimKey(books[kh[1]].headings[kh[2]].title)
                                   \in DOMAIN registry
                             /\ \E src \in registry[ClaimKey(books[kh[1]].headings[kh[2]].title)] :
                                   src # books[kh[1]].source)

\* C8 witness: two books hold the same recipe under titles that differ in
\* case and punctuation; the page of the first shows the line and the page of
\* the second, the only source of the registry entry, does not.
C8_Witness ==
    /\ pc = "done"
    /\ Len(books[1].headings) = 1 /\ books[1].headings[1].title = "Apple Pie"
    /\ Len(books[2].headings) = 1 /\ books[2].headings[1].title = "apple-pie"
    /\ registry = [k \in {"applepie"} |-> {"BookB"}]
    /\ PathJoin(SiteDir, "recipes/Apple_Pie.html") \in DOMAIN fs
    /\ Contains(fs[PathJoin(SiteDir, "recipes/Apple_Pie.html")], "Also found in:")
    /\ PathJoin(SiteDir, "recipes/apple-pie.html") \in DOMAIN fs
    /\ ~Contains(fs[PathJoin(SiteDir, "recipes/apple-pie.html")], "Also found in:")


-----------------------------------------------------------------------------
(* Claim about the ranges being non-empty.                                 *)

\* the steps that come after split_recipes has run in the current run
AfterSplit == {"toc", "save", "html", "site", "done"}

\* C11: the page indices of the headings that detect_headings returns are
\* strictly increasing and below the page count, so every range has
\* startPage < endPage and its page loop has a round; split_recipes asks for
\* from_page <= to_page, and export_master_html_site never reads parsed
\* before it is assigned.
C11_NoEmptyRange ==
    /\ pc \in AfterDetect =>
          /\ \A i \in 1..Len(headings) :
                headings[i].page >= 0 /\ headings[i].page < Len(doc)
          /\ \A i, j \in 1..Len(headings) :
                i < j => headings[i].page < headings[j].page
          /\ \A i \in 1..Len(headings) :
                /\ Ranges(headings, doc)[i].start < Ranges(headings, doc)[i].end
                /\ Len(PageRange(Ranges(headings, doc)[i].start,
                                 Ranges(headings, doc)[i].end)) >= 1
    /\ pc \in AfterSplit =>
          /\ Cardinality(DOMAIN pdfs) = Len(headings)
          /\ \A f \in DOMAIN pdfs : pdfs[f].from_page <= pdfs[f].to_page
    /\ pc = "done" => ~failed

\* C11 witness: the whole pipeline has run on a document whose last page
\* opens a recipe, the second of two: its range is that one page.
C11_Witness ==
    /\ pc = "done"
    /\ ~failed
    /\ Len(headings) = 2
    /\ headings[2].page = Len(doc) - 1
    /\ headings[1].page + 1 < headings[2].page
    /\ \E f \in DOMAIN pdfs :
          pdfs[f].from_page = Len(doc) - 1 /\ pdfs[f].to_page = Len(doc) - 1
    /\ PathJoin(PathJoin(SiteDir, "recipes"),
                sanitize_title(headings[2].title) \o ".html") \in DOMAIN fs


====
